---- MODULE Spec2Model ----
(***************************************************************************)
(* Model of the market opportunity alert system (src/logic.py run_alerts   *)
(* with its State Store src/state.py, Market Data Gateway src/data.py and  *)
(* Notifier src/alerts.py).                                                *)
(*                                                                         *)
(* Units.  Prices, closes, peaks and the volatility reading are integers.  *)
(* A drawdown is the exact rational num/den (den > 0) so that the code's   *)
(* comparisons are decided without rounding; values stored in a            *)
(* TriggerRecord are round(x, 2) and are kept in hundredths.               *)
(***************************************************************************)
EXTENDS Integers, Sequences, FiniteSets, TLC

(***************************************************************************)
(* Bounds of the model.                                                    *)
(***************************************************************************)
MaxRuns == 3
MaxLen == 3
MaxTestRuns == 4

(***************************************************************************)
(* Configuration: src/config.py and the constants of run_alerts.           *)
(***************************************************************************)
LevelOrder == <<5, 10, 15, 20>>

Levels == {LevelOrder[n] : n \in 1..Len(LevelOrder)}

LEVELS(level) ==
    CASE level = 5 -> "3mo"
      [] level = 10 -> "6mo"
      [] level = 15 -> "1y"
      [] level = 20 -> "2y"

Periods == {LEVELS(l) : l \in Levels}

RESET_THRESHOLD == -3

VIX_CONFIRMATION_THRESHOLD == 20

PERSISTENCE_DAYS(level) ==
    CASE level = 5 -> 0
      [] level = 10 -> 1
      [] level = 15 -> 2
      [] level = 20 -> 0
      [] OTHER -> 0

\* str(level): the key of a level in the state document.
LevelKey(level) ==
    CASE level = 5 -> "5"
      [] level = 10 -> "10"
      [] level = 15 -> "15"
      [] level = 20 -> "20"

\* min(LEVELS) and its lookback window, the reference of the reset.
SetMin(S) == CHOOSE x \in S : \A y \in S : x <= y

reset_level == SetMin(Levels)

reset_period == LEVELS(reset_level)

(***************************************************************************)
(* Optional values: None is the empty sequence, a value v is <<v>>.        *)
(***************************************************************************)
None == << >>

Some(v) == <<v>>

(***************************************************************************)
(* Arithmetic of run_alerts.                                               *)
(***************************************************************************)
SeqMax(s) == CHOOSE x \in {s[n] : n \in 1..Len(s)} : \A n \in 1..Len(s) : s[n] <= x

\* data["Close"], the closes of a frame, oldest first.
CloseSeries(data) == data.Close

\* data.empty
IsEmpty(data) == Len(data.Close) = 0

\* Variant of Drawdown that ignores the override.
Drawdown_Computed(price, peak, forced) ==
    [num |-> (price - peak) * 100, den |-> peak]

\* (index_price - peak) / peak * 100, replaced by the override when given.
Drawdown(price, peak, forced) ==
    IF forced # None
    THEN [num |-> forced[1], den |-> 1]
    ELSE [num |-> (price - peak) * 100, den |-> peak]

\* drawdown > bound, for the rational drawdown dd and an integer bound.
Exceeds(dd, bound) == dd.num > bound * dd.den

\* N / D scaled by a power of two into [1, 2): the significand of the double.
RECURSIVE Normalised(_, _)
Normalised(N, D) ==
    IF N < D THEN Normalised(2 * N, D)
    ELSE IF N >= 2 * D THEN Normalised(N, 2 * D)
    ELSE <<N, D>>

\* The long division that yields the binary digits of the quotient after its
\* leading 1, four at a time: with left groups to go, r is the remainder and
\* m the digits so far modulo 256.
RECURSIVE Significand(_, _, _, _)
Significand(r, m, D, left) ==
    IF left = 0 THEN [r |-> r, m |-> m]
    ELSE LET digits == (16 * r) \div D
         IN  Significand((16 * r) % D, (16 * m + digits) % 256, D, left - 1)

\* The side on which the double (N / D) * 100 of the code lies of the exact
\* value 100 * N / D, for N, D > 0: 1 above, -1 below, 0 on it.  The quotient
\* is rounded to 53 binary digits (ties to even), q = (M + rho / D) scaled, and
\* so is its product with 100, of which s digits are dropped.
FloatSide(N0, D0) ==
    LET nd == Normalised(N0, D0)
        N == nd[1]
        D == nd[2]
        t == Significand(N - D, 1, D, 13)
        up == IF 2 * t.r > D \/ (2 * t.r = D /\ t.m % 2 = 1) THEN 1 ELSE 0
        m == (t.m + up) % 256
        rho == t.r - up * D
        dropped == IF 25 * N > 32 * D \/ (25 * N = 32 * D /\ rho <= 0) THEN 128 ELSE 64
        P == (100 * m) % (2 * dropped)
        low == P % dropped
        up2 == IF 2 * low > dropped \/ (2 * low = dropped /\ P >= dropped) THEN 1 ELSE 0
        d == (up2 * dropped - low) * D - 100 * rho
    IN  IF d > 0 THEN 1 ELSE IF d < 0 THEN -1 ELSE 0

\* round(x, 2) in hundredths, for the double x the code computes for num / den
\* (den > 0): an integer when den = 1, (index_price - peak) / peak * 100
\* otherwise.  Where the exact value is halfway between two hundredths the
\* double decides: it lies above or below the exact value, or on it, and then
\* the even digit is taken.
Round2(num, den) ==
    LET a == IF num < 0 THEN -num ELSE num
        sign == IF num < 0 THEN -1 ELSE 1
        k == (100 * a) \div den
        r == (100 * a) % den
    IN  IF 2 * r < den THEN sign * k
        ELSE IF 2 * r > den THEN sign * (k + 1)
        ELSE LET side == FloatSide(a, 100 * den)
             IN  IF side > 0 THEN sign * (k + 1)
                 ELSE IF side < 0 THEN sign * k
                 ELSE IF k % 2 = 0 THEN sign * k ELSE sign * (k + 1)

\* peak * (1 - level / 100) in hundredths.
Threshold(peak, level) == peak * (100 - level)

\* closes.iloc[-days:]: the last days closes, all of them when fewer.
LastRows(closes, days) ==
    IF Len(closes) <= days THEN closes
    ELSE SubSeq(closes, Len(closes) - days + 1, Len(closes))

\* Variant of consecutive_closes_below without the length test (fail open).
consecutive_closes_below_FailOpen(data, threshold, days) ==
    IF days <= 0 THEN FALSE
    ELSE LET closes == LastRows(CloseSeries(data), days)
         IN  \A n \in 1..Len(closes) : closes[n] * 100 <= threshold

\* consecutive_closes_below(data, threshold, days), threshold in hundredths.
consecutive_closes_below(data, threshold, days) ==
    IF days <= 0 THEN FALSE
    ELSE LET closes == LastRows(CloseSeries(data), days)
         IN  IF Len(closes) < days THEN FALSE
             ELSE \A n \in 1..Len(closes) : closes[n] * 100 <= threshold

\* persistence_confirmed of run_alerts.
PersistenceConfirmed(level, data, threshold) ==
    IF PERSISTENCE_DAYS(level) = 0 THEN TRUE
    ELSE consecutive_closes_below(data, threshold, PERSISTENCE_DAYS(level))

\* vix_confirmed of run_alerts.
VixConfirmed(vix) == vix >= VIX_CONFIRMATION_THRESHOLD

\* Variant of Confirmed in which the confirmation is not required.
Confirmed_Always(force, persistence_confirmed, vix_confirmed) == TRUE

\* Variant of Confirmed that ignores force_confirm.
Confirmed_Unforced(force, persistence_confirmed, vix_confirmed) ==
    persistence_confirmed \/ vix_confirmed

\* confirmed of run_alerts.
Confirmed(force, persistence_confirmed, vix_confirmed) ==
    IF force THEN TRUE ELSE persistence_confirmed \/ vix_confirmed

\* Variant of Eligible with the boundary excluded (drawdown >= -level: continue).
Eligible_Strict(dd, level) == dd.num < (-level) * dd.den

\* The guard "drawdown > -level: continue" negated.
Eligible(dd, level) == ~Exceeds(dd, -level)

\* confirmation_text of run_alerts.
ConfirmationText(persistence_confirmed, vix_confirmed) ==
    IF persistence_confirmed /\ vix_confirmed THEN "PERSISTENCE + HIGH VIX"
    ELSE IF persistence_confirmed THEN "PERSISTENCE"
    ELSE "HIGH VIX"

\* The TriggerRecord stored under state[level_key].
TriggerRecord(level, price, vix, peak, dd, text) ==
    [triggered_at_price |-> Round2(price, 1),
     drawdown |-> Round2(dd.num, dd.den),
     reference_period |-> LEVELS(level),
     reference_peak |-> Round2(peak, 1),
     threshold_price |-> Threshold(peak, level),
     vix |-> Round2(vix, 1),
     confirmed_by |-> text]

(***************************************************************************)
(* The in-memory state value: kind is the Python type that json.load       *)
(* produced ("dict", "list" or "null"), map is a function whose domain is  *)
(* the keys of a dict or the elements of a list.                           *)
(***************************************************************************)
EmptyMap == [k \in {} |-> 0]

EmptyState == [kind |-> "dict", map |-> EmptyMap]

\* bool(state)
Truthy(st) == st.kind # "null" /\ DOMAIN st.map # {}

\* level_key in state is defined for containers only.
CanContain(st) == st.kind \in {"dict", "list"}

\* Variant of Contains that looks the integer level up, which no document holds.
Contains_IntKey(st, key) == FALSE

\* level_key in state
Contains(st, key) == key \in DOMAIN st.map

\* Variant of Clear that removes the record of the reset level only.
Clear_ResetLevel(st) ==
    [kind |-> st.kind,
     map |-> [k \in DOMAIN st.map \ {LevelKey(reset_level)} |-> st.map[k]]]

\* state.clear()
Clear(st) == [kind |-> st.kind, map |-> EmptyMap]

\* state[level_key] = record succeeds on a dict only.
CanSetItem(st) == st.kind = "dict"

\* Variant of SetItem that keeps the new record only.
SetItem_Replace(st, key, rec) ==
    [kind |-> st.kind, map |-> [k \in {key} |-> rec]]

\* state[level_key] = record
SetItem(st, key, rec) ==
    [kind |-> st.kind,
     map |-> [k \in DOMAIN st.map \cup {key} |-> IF k = key THEN rec ELSE st.map[k]]]

(***************************************************************************)
(* The state document on disk.  kind is what the path holds: "missing",    *)
(* "directory", "undecodable" (bytes that are not UTF-8), "empty" (no      *)
(* bytes: the document after open(file, "w")), "garbage" (text that is not *)
(* JSON) or "json"; a JSON document is the sequence of its members in the  *)
(* order json.dump(sort_keys=True) writes.  readable and writable say      *)
(* whether open(file, "r") and open(file, "w") are permitted to the        *)
(* process: for a missing document writable is the permission to create it *)
(* in its directory.  The text of a "garbage" document is the prefix that  *)
(* was written of a text, or the text whose end remains after a shorter    *)
(* text was written over it.                                               *)
(***************************************************************************)
\* Order of the keys as strings: "10" < "15" < "20" < "5".
KeyRank(key) ==
    CASE key = "10" -> 1
      [] key = "15" -> 2
      [] key = "20" -> 3
      [] key = "5" -> 4
      [] OTHER -> 5

RECURSIVE SortedKeys(_)
SortedKeys(S) ==
    IF S = {} THEN << >>
    ELSE LET k == CHOOSE x \in S : \A y \in S : KeyRank(x) <= KeyRank(y)
         IN  <<k>> \o SortedKeys(S \ {k})

\* json.dump(state, f, indent=2, sort_keys=True)
JsonDump(st) ==
    [type |-> st.kind,
     members |-> LET ks == SortedKeys(DOMAIN st.map)
                 IN  [n \in 1..Len(ks) |-> [key |-> ks[n], value |-> st.map[ks[n]]]]]

\* json.load(f)
JsonLoad(text) ==
    [kind |-> text.type,
     map |-> LET ms == text.members
             IN  [k \in {ms[n].key : n \in 1..Len(ms)} |->
                    (CHOOSE m \in {ms[n] : n \in 1..Len(ms)} : m.key = k).value]]

NoText == [type |-> "null", members |-> << >>]

\* The document a path holds, with the permissions of the process on it.
Doc(kind, text, readable, writable) ==
    [kind |-> kind, text |-> text, readable |-> readable, writable |-> writable]

\* No document, in a directory where the process can create one.
MissingFile == Doc("missing", NoText, TRUE, TRUE)

\* open(file, "r") succeeds on a document that exists.
CanOpenForRead(f) == f.kind # "directory" /\ f.readable

\* open(file, "w") succeeds: it fails with OSError (IsADirectoryError,
\* PermissionError) on a directory, on a document the process may not write
\* and for a missing document in a directory the process may not write.
CanOpenForWrite(f) == f.kind # "directory" /\ f.writable

\* load_state(file): raised is TRUE when the exception is not caught.
load_state(f) ==
    IF f.kind = "missing" THEN [raised |-> FALSE, value |-> EmptyState]
    ELSE IF ~CanOpenForRead(f) THEN [raised |-> FALSE, value |-> EmptyState]
    ELSE CASE f.kind = "empty" -> [raised |-> FALSE, value |-> EmptyState]
           [] f.kind = "garbage" -> [raised |-> FALSE, value |-> EmptyState]
           [] f.kind = "undecodable" -> [raised |-> TRUE, value |-> EmptyState]
           [] f.kind = "json" -> [raised |-> FALSE, value |-> JsonLoad(f.text)]

\* The document after open(file, "w") succeeded: no bytes; a document that
\* was missing is created.
Truncate(f) == [f EXCEPT !.kind = "empty", !.text = NoText]

\* save_state(state, file) where its open succeeds: a full overwrite of the
\* document.
save_state(st, f) == [f EXCEPT !.kind = "json", !.text = JsonDump(st)]

\* The number of decimal digits of n >= 0.
RECURSIVE Digits(_)
Digits(n) == IF n < 10 THEN 1 ELSE 1 + Digits(n \div 10)

\* len(repr(x)) for the float x of h hundredths, as json.dump writes it:
\* "80.0", "94.5", "-9.52".
FloatLen(h) ==
    LET a == IF h < 0 THEN -h ELSE h
    IN  (IF h < 0 THEN 1 ELSE 0) + Digits(a \div 100) + 1
          + (IF a % 10 # 0 THEN 2 ELSE 1)

\* The number of characters of the strings of a document.
StringLen(str) ==
    CASE str \in {"5"} -> 1
      [] str \in {"10", "15", "20", "1y", "2y"} -> 2
      [] str \in {"3mo", "6mo"} -> 3
      [] str = "HIGH VIX" -> 8
      [] str = "PERSISTENCE" -> 11
      [] str = "PERSISTENCE + HIGH VIX" -> 22

\* s[a] + ... + s[b]
RECURSIVE SumRange(_, _, _)
SumRange(s, a, b) ==
    IF a > b THEN 0
    ELSE IF a = b THEN s[a]
    ELSE LET m == (a + b) \div 2
         IN  SumRange(s, a, m) + SumRange(s, m + 1, b)

\* The lengths of the chunks json.dump writes for a TriggerRecord as a member
\* value: "{", the line break and four spaces, then for each name in sorted
\* order the quoted name, ": " and the value, with "," and the line break
\* between them, the line break and two spaces, "}".  The numbers of a record
\* are the floats of a run without override (float(close.max()),
\* float(last_close) and what is computed from them).
RecordChunks(rec) ==
    <<1, 5,
      14, 2, StringLen(rec.confirmed_by) + 2, 6,
      10, 2, FloatLen(rec.drawdown), 6,
      16, 2, FloatLen(rec.reference_peak), 6,
      18, 2, StringLen(rec.reference_period) + 2, 6,
      17, 2, FloatLen(rec.threshold_price), 6,
      20, 2, FloatLen(rec.triggered_at_price), 6,
      5, 2, FloatLen(rec.vix),
      3, 1>>

\* The chunks of a member value: a TriggerRecord, or the empty value of a
\* document that holds no record under the key.
ValueChunks(v) == IF DOMAIN v = {} THEN <<2>> ELSE RecordChunks(v)

\* The chunks of the first n members of a dict: the quoted key, ": " and the
\* value, with "," and the line break between members.
RECURSIVE MemberChunks(_, _)
MemberChunks(members, n) ==
    IF n = 0 THEN << >>
    ELSE MemberChunks(members, n - 1)
           \o (IF n > 1 THEN <<4>> ELSE << >>)
           \o <<StringLen(members[n].key) + 2, 2>>
           \o ValueChunks(members[n].value)

\* The chunks of the first n elements of a list of strings: the quoted
\* element after "[" or ",", the line break and two spaces.
RECURSIVE ElementChunks(_, _)
ElementChunks(members, n) ==
    IF n = 0 THEN << >>
    ELSE ElementChunks(members, n - 1) \o <<4 + StringLen(members[n].key) + 2>>

\* The lengths of the chunks json.dump(state, f, indent=2, sort_keys=True)
\* writes to f, in order: "null" for None, "{}" or "[]" for an empty
\* container, else the opening, the members, the line break and the closing.
ChunkLens(text) ==
    IF text.type = "null" THEN <<4>>
    ELSE IF Len(text.members) = 0 THEN <<2>>
    ELSE IF text.type = "list"
    THEN ElementChunks(text.members, Len(text.members)) \o <<1, 1>>
    ELSE <<1, 3>> \o MemberChunks(text.members, Len(text.members)) \o <<1, 1>>

\* The text is the first chunks of a text, not all of them.
IsPrefix(text) == "chunks" \in DOMAIN text

\* The first n chunks of a text.
Prefix(text, n) ==
    IF n = Len(ChunkLens(text)) THEN text
    ELSE [type |-> text.type, members |-> text.members, chunks |-> n]

\* The number of characters of a text.
JsonLen(text) ==
    SumRange(ChunkLens(text), 1,
             IF IsPrefix(text) THEN text.chunks ELSE Len(ChunkLens(text)))

\* The number of bytes of a document that is absent, empty or was written by
\* the runs.
DocLen(f) == IF f.kind \in {"missing", "empty"} THEN 0 ELSE JsonLen(f.text)

\* What reaches the file opened by open(file, "w") when it is closed, on the
\* document f as it is then: the text is written over f from its first byte,
\* so that the end of a longer text written since the open remains.
Overwrite(f, text) ==
    IF JsonLen(text) = 0 THEN f
    ELSE IF DocLen(f) <= JsonLen(text)
    THEN [f EXCEPT !.kind = IF IsPrefix(text) THEN "garbage" ELSE "json", !.text = text]
    ELSE [f EXCEPT !.kind = "garbage"]

(***************************************************************************)
(* Market Data Gateway (src/data.py).  A response of the provider is an    *)
(* error or a sequence of daily rows, oldest first; a row is incomplete    *)
(* when one of its cells is NaN.  The market is a history of rows and a    *)
(* lookback window is its trailing part.                                   *)
(***************************************************************************)
Row(c) == [Close |-> c, nan |-> FALSE]

NanRow(c) == [Close |-> c, nan |-> TRUE]

Failure == [ok |-> FALSE, rows |-> << >>]

Response(rows) == [ok |-> TRUE, rows |-> rows]

WindowLen(period) ==
    CASE period = "3mo" -> 1
      [] period = "6mo" -> 2
      [] period = "1y" -> 3
      [] period = "2y" -> 4

\* yf.download(symbol, period=period, interval="1d") on the history hist.
Download(hist, period) == Response(LastRows(hist, WindowLen(period)))

\* data.dropna()
DropNa(rows) == SelectSeq(rows, LAMBDA r : ~r.nan)

\* fetch_data(symbol, period): the frame of the complete rows.
fetch_data(resp) ==
    [raised |-> ~resp.ok,
     data |-> LET rows == DropNa(resp.rows)
              IN  [Close |-> [n \in 1..Len(rows) |-> rows[n].Close]]]

\* Variant of get_latest_close that answers 0 where the code raises.
get_latest_close_Zero(resp) == [raised |-> FALSE, value |-> 0]

\* get_latest_close(symbol): data["Close"].iloc[-1] raises on an empty frame.
get_latest_close(resp) ==
    LET got == fetch_data(resp)
        closes == CloseSeries(got.data)
    IN  IF got.raised \/ Len(closes) = 0
        THEN [raised |-> TRUE, value |-> 0]
        ELSE [raised |-> FALSE, value |-> closes[Len(closes)]]

NoData == [Close |-> << >>]

(***************************************************************************)
(* One iteration of the level loop of run_alerts, as a function of the     *)
(* values it reads.                                                        *)
(***************************************************************************)
\* Variant of Peak that takes the most recent close for the peak.
Peak_Last(data) == CloseSeries(data)[Len(CloseSeries(data))]

Peak(data) == SeqMax(CloseSeries(data))

\* The iteration reaches send_alert (none of its continue guards applies).
Fires(st, level, data, price, vix, forced, force) ==
    /\ ~Contains(st, LevelKey(level))
    /\ ~IsEmpty(data)
    /\ Peak(data) > 0
    /\ Eligible(Drawdown(price, Peak(data), forced), level)
    /\ Confirmed(force,
                 PersistenceConfirmed(level, data, Threshold(Peak(data), level)),
                 VixConfirmed(vix))

\* The record the iteration stores when it fires.
NewRecord(level, data, price, vix, forced) ==
    LET peak == Peak(data)
    IN  TriggerRecord(level, price, vix, peak, Drawdown(price, peak, forced),
                      ConfirmationText(
                          PersistenceConfirmed(level, data, Threshold(peak, level)),
                          VixConfirmed(vix)))

\* Variant of ShouldReset with the boundary included (reset_drawdown >= RESET_THRESHOLD).
ShouldReset_Inclusive(dd, st) == dd.num >= RESET_THRESHOLD * dd.den /\ Truthy(st)

\* The test of the Reset Controller: reset_drawdown > RESET_THRESHOLD and state.
ShouldReset(dd, st) == Exceeds(dd, RESET_THRESHOLD) /\ Truthy(st)

\* Variant of Resets that tests the computed drawdown, not the override.
Resets_Computed(st, data, price, forced) ==
    /\ ~IsEmpty(data)
    /\ Peak(data) > 0
    /\ ShouldReset(Drawdown(price, Peak(data), None), st)

\* The Reset Controller clears the state in a run with these values.
Resets(st, data, price, forced) ==
    /\ ~IsEmpty(data)
    /\ Peak(data) > 0
    /\ ShouldReset(Drawdown(price, Peak(data), forced), st)

(***************************************************************************)
(* State.  Every variable of a run is a function of the process that       *)
(* executes run_alerts.                                                    *)
(*   file             the state document on disk                           *)
(*   pc               position of the run: "idle" before the first run,    *)
(*                    "fetch_prices", "fetch_series", "reset", "eval",     *)
(*                    "save", and the ends "done" (save_state returned),   *)
(*                    "returned" (the early return), "raised", "crashed"   *)
(*                    (the process was killed) and "interrupted" (a        *)
(*                    KeyboardInterrupt left the run); "reset_dump" and    *)
(*                    "save_dump" are inside save_state, after its open    *)
(*   forced_drawdown, force_confirm   the parameters of run_alerts         *)
(*   state, index_price, vix_price, data_map   its local variables         *)
(*   idx              position of the level loop in LevelOrder             *)
(* History of the run: loaded (the value load_state returned), cleared     *)
(* (the Reset Controller cleared the state), attempts (send_alert calls    *)
(* per level), created (levels whose record was stored), undelivered       *)
(* (levels whose delivery failed).                                         *)
(* History of the episode: sent (send_alert calls per level since the      *)
(* state was last cleared, counted up to 2), rearmed (levels that have not *)
(* fired since the last clearing), fired_before (levels that had a record  *)
(* when the state was cleared), runs (the number of runs started), prev    *)
(* (the inputs of the previous run when the run repeats them).             *)
(* inputs is what the run read from its environment: the document at its   *)
(* entry, the responses for the index and the volatility, the history.     *)
(* call is the application of a function of the program to arguments.      *)
(***************************************************************************)
VARIABLES file, pc, forced_drawdown, force_confirm, state, index_price, vix_price,
          data_map, idx, loaded, cleared, attempts, created, undelivered,
          sent, rearmed, fired_before, runs, prev, inputs, call

run_vars == <<file, pc, forced_drawdown, force_confirm, state, index_price, vix_price,
              data_map, idx, loaded, cleared, attempts, created, undelivered,
              sent, rearmed, fired_before, runs, prev, inputs>>

vars == <<run_vars, call>>

Procs == {1, 2}

Ended == {"idle", "done", "returned", "raised", "crashed", "interrupted"}

NoAttempts == [l \in Levels |-> 0]

NoFrames == [period \in Periods |-> NoData]

NoInputs(f) == [file |-> f, index |-> Failure, vix |-> Failure, hist |-> << >>]

\* The state before the first run, with the document f on disk.
Start(f) ==
    /\ file = f
    /\ pc = [p \in Procs |-> "idle"]
    /\ forced_drawdown = [p \in Procs |-> None]
    /\ force_confirm = [p \in Procs |-> FALSE]
    /\ state = [p \in Procs |-> EmptyState]
    /\ index_price = [p \in Procs |-> 0]
    /\ vix_price = [p \in Procs |-> 0]
    /\ data_map = [p \in Procs |-> NoFrames]
    /\ idx = [p \in Procs |-> 1]
    /\ loaded = [p \in Procs |-> EmptyState]
    /\ cleared = [p \in Procs |-> FALSE]
    /\ attempts = [p \in Procs |-> NoAttempts]
    /\ created = [p \in Procs |-> {}]
    /\ undelivered = [p \in Procs |-> {}]
    /\ sent = NoAttempts
    /\ rearmed = {}
    /\ fired_before = {}
    /\ runs = 0
    /\ prev = None
    /\ inputs = [p \in Procs |-> NoInputs(f)]

\* A fresh deployment: no state document yet.
Init == Start(MissingFile) /\ call = None

(***************************************************************************)
(* run_alerts, step by step.                                               *)
(***************************************************************************)
\* Entry of run_alerts with the given parameters and state = load_state(file),
\* while fewer than limit runs have been started.
EnterWithin(p, forced, force, limit) ==
    LET got == load_state(file)
    IN  /\ pc[p] \in Ended
        /\ runs < limit
        /\ runs' = runs + 1
        /\ forced_drawdown' = [forced_drawdown EXCEPT ![p] = forced]
        /\ force_confirm' = [force_confirm EXCEPT ![p] = force]
        /\ state' = [state EXCEPT ![p] = got.value]
        /\ loaded' = [loaded EXCEPT ![p] = got.value]
        /\ pc' = [pc EXCEPT ![p] = IF got.raised THEN "raised" ELSE "fetch_prices"]
        /\ index_price' = [index_price EXCEPT ![p] = 0]
        /\ vix_price' = [vix_price EXCEPT ![p] = 0]
        /\ data_map' = [data_map EXCEPT ![p] = NoFrames]
        /\ idx' = [idx EXCEPT ![p] = 1]
        /\ cleared' = [cleared EXCEPT ![p] = FALSE]
        /\ attempts' = [attempts EXCEPT ![p] = NoAttempts]
        /\ created' = [created EXCEPT ![p] = {}]
        /\ undelivered' = [undelivered EXCEPT ![p] = {}]
        /\ inputs' = [inputs EXCEPT ![p] = NoInputs(file)]
        /\ UNCHANGED <<file, sent, rearmed, fired_before, call>>

\* Entry of one of the runs of the model.
Enter(p, forced, force) == EnterWithin(p, forced, force, MaxRuns)

\* A run with any parameters of the sets Forced and Force.
Load(p, Forced, Force) ==
    /\ \E forced \in Forced, force \in Force : Enter(p, forced, force)
    /\ prev' = None

\* The run after a completed one, with the parameters and the market unchanged.
LoadAgain(p) ==
    /\ pc[p] = "done"
    /\ prev = None
    /\ Enter(p, forced_drawdown[p], force_confirm[p])
    /\ prev' = Some(inputs[p])

\* index_price and vix_price = get_latest_close(...), inside try/except: return.
FetchPrices(p, IndexIn, VixIn) ==
    /\ pc[p] = "fetch_prices"
    /\ \E ir \in IndexIn, vr \in VixIn :
         LET index == get_latest_close(ir)
             vix == get_latest_close(vr)
         IN  /\ inputs' = [inputs EXCEPT ![p].index = ir, ![p].vix = vr]
             /\ IF index.raised \/ vix.raised
                THEN /\ pc' = [pc EXCEPT ![p] = "returned"]
                     /\ UNCHANGED <<index_price, vix_price>>
                ELSE /\ pc' = [pc EXCEPT ![p] = "fetch_series"]
                     /\ index_price' = [index_price EXCEPT ![p] = index.value]
                     /\ vix_price' = [vix_price EXCEPT ![p] = vix.value]
    /\ UNCHANGED <<file, forced_drawdown, force_confirm, state, data_map, idx, loaded,
                   cleared, attempts, created, undelivered, sent, rearmed,
                   fired_before, runs, prev, call>>

\* data_map = {period: fetch_data(INDEX_SYMBOL, period) for period in unique_periods}
FetchSeries(p, HistIn) ==
    /\ pc[p] = "fetch_series"
    /\ \E hist \in HistIn :
         /\ inputs' = [inputs EXCEPT ![p].hist = hist]
         /\ data_map' = [data_map EXCEPT ![p] =
                           [period \in Periods |-> fetch_data(Download(hist, period)).data]]
    /\ pc' = [pc EXCEPT ![p] = "reset"]
    /\ UNCHANGED <<file, forced_drawdown, force_confirm, state, index_price, vix_price,
                   idx, loaded, cleared, attempts, created, undelivered, sent, rearmed,
                   fired_before, runs, prev, call>>

\* A download of the comprehension raises: the exception leaves run_alerts.
FetchSeriesFails(p) ==
    /\ pc[p] = "fetch_series"
    /\ fetch_data(Failure).raised
    /\ pc' = [pc EXCEPT ![p] = "raised"]
    /\ UNCHANGED <<file, forced_drawdown, force_confirm, state, index_price, vix_price,
                   data_map, idx, loaded, cleared, attempts, created, undelivered, sent,
                   rearmed, fired_before, runs, prev, call, inputs>>

\* The Reset Controller: clear the state and persist it when the market
\* recovered.  The save_state is taken whole (open, dump and close): the
\* step of runs that no other run overlaps and that are not interrupted.
Reset(p) ==
    /\ pc[p] = "reset"
    /\ IF Resets(state[p], data_map[p][reset_period], index_price[p], forced_drawdown[p])
       THEN /\ state' = [state EXCEPT ![p] = Clear(state[p])]
            /\ IF CanOpenForWrite(file)
               THEN /\ file' = save_state(Clear(state[p]), file)
                    /\ cleared' = [cleared EXCEPT ![p] = TRUE]
                    /\ sent' = NoAttempts
                    /\ rearmed' = Levels
                    /\ fired_before' = {l \in Levels : Contains(state[p], LevelKey(l))}
                    /\ pc' = [pc EXCEPT ![p] = "eval"]
               ELSE \* open raises OSError, which leaves run_alerts
                    /\ cleared' = [cleared EXCEPT ![p] = TRUE]
                    /\ pc' = [pc EXCEPT ![p] = "raised"]
                    /\ UNCHANGED <<file, sent, rearmed, fired_before>>
       ELSE /\ pc' = [pc EXCEPT ![p] = "eval"]
            /\ UNCHANGED <<state, file, cleared, sent, rearmed, fired_before>>
    /\ UNCHANGED <<forced_drawdown, force_confirm, index_price, vix_price, data_map, idx,
                   loaded, attempts, created, undelivered, runs, prev, call, inputs>>

\* Variant of send_alert that lets the RequestException through.
send_alert_Raises(outcome) == [raised |-> outcome # "ok", delivered |-> outcome = "ok"]

\* send_alert(message): the request is delivered ("ok") or fails with a
\* RequestException ("error"), which is logged and not raised.
send_alert(outcome) == [raised |-> FALSE, delivered |-> outcome = "ok"]

\* One iteration of "for level, period in LEVELS.items()"; Delivery holds the
\* outcomes the request of send_alert may have.
EvalLevel(p, Delivery) ==
    LET level == LevelOrder[idx[p]]
        data == data_map[p][LEVELS(level)]
        next == IF idx[p] = Len(LevelOrder) THEN "save" ELSE "eval"
        step == IF next = "eval" THEN idx[p] + 1 ELSE idx[p]
    IN  /\ pc[p] = "eval"
        /\ IF ~CanContain(state[p])
           THEN \* level_key in state raises TypeError
                /\ pc' = [pc EXCEPT ![p] = "raised"]
                /\ UNCHANGED <<state, idx, attempts, created, undelivered, sent, rearmed>>
           ELSE IF ~Fires(state[p], level, data, index_price[p], vix_price[p],
                          forced_drawdown[p], force_confirm[p])
           THEN \* continue
                /\ pc' = [pc EXCEPT ![p] = next]
                /\ idx' = [idx EXCEPT ![p] = step]
                /\ UNCHANGED <<state, attempts, created, undelivered, sent, rearmed>>
           ELSE \* send_alert(msg), then state[level_key] = {...}
                \E outcome \in Delivery :
                  LET call_sent == send_alert(outcome)
                  IN  /\ undelivered' = [undelivered EXCEPT ![p] =
                                          IF call_sent.delivered THEN @ ELSE @ \cup {level}]
                      /\ attempts' = [attempts EXCEPT ![p][level] = @ + 1]
                      /\ sent' = [sent EXCEPT ![level] = IF @ < 2 THEN @ + 1 ELSE @]
                      /\ rearmed' = rearmed \ {level}
                      /\ IF ~call_sent.raised /\ CanSetItem(state[p])
                         THEN /\ state' = [state EXCEPT ![p] =
                                             SetItem(@, LevelKey(level),
                                                     NewRecord(level, data, index_price[p],
                                                               vix_price[p],
                                                               forced_drawdown[p]))]
                              /\ created' = [created EXCEPT ![p] = @ \cup {level}]
                              /\ pc' = [pc EXCEPT ![p] = next]
                              /\ idx' = [idx EXCEPT ![p] = step]
                         ELSE \* the exception leaves run_alerts
                              /\ pc' = [pc EXCEPT ![p] = "raised"]
                              /\ UNCHANGED <<state, created, idx>>
        /\ UNCHANGED <<file, forced_drawdown, force_confirm, index_price, vix_price,
                       data_map, loaded, cleared, fired_before, runs, prev, call, inputs>>

\* save_state(state, state_file) after the loop, taken whole (open, dump and
\* close): the step of runs that no other run overlaps and that are not
\* interrupted.  Where the open fails the OSError leaves run_alerts.
Save(p) ==
    /\ pc[p] = "save"
    /\ IF CanOpenForWrite(file)
       THEN /\ file' = save_state(state[p], file)
            /\ pc' = [pc EXCEPT ![p] = "done"]
       ELSE /\ pc' = [pc EXCEPT ![p] = "raised"]
            /\ UNCHANGED file
    /\ UNCHANGED <<forced_drawdown, force_confirm, state, index_price, vix_price,
                   data_map, idx, loaded, cleared, attempts, created, undelivered, sent,
                   rearmed, fired_before, runs, prev, call, inputs>>

\* The Reset Controller up to the open of its save_state: state.clear() and
\* open(file, "w"), which leaves the document without bytes.
ResetOpen(p) ==
    /\ pc[p] = "reset"
    /\ IF Resets(state[p], data_map[p][reset_period], index_price[p], forced_drawdown[p])
       THEN /\ state' = [state EXCEPT ![p] = Clear(state[p])]
            /\ IF CanOpenForWrite(file)
               THEN /\ file' = Truncate(file)
                    /\ cleared' = [cleared EXCEPT ![p] = TRUE]
                    /\ sent' = NoAttempts
                    /\ rearmed' = Levels
                    /\ fired_before' = {l \in Levels : Contains(state[p], LevelKey(l))}
                    /\ pc' = [pc EXCEPT ![p] = "reset_dump"]
               ELSE /\ cleared' = [cleared EXCEPT ![p] = TRUE]
                    /\ pc' = [pc EXCEPT ![p] = "raised"]
                    /\ UNCHANGED <<file, sent, rearmed, fired_before>>
       ELSE /\ pc' = [pc EXCEPT ![p] = "eval"]
            /\ UNCHANGED <<state, file, cleared, sent, rearmed, fired_before>>
    /\ UNCHANGED <<forced_drawdown, force_confirm, index_price, vix_price, data_map, idx,
                   loaded, attempts, created, undelivered, runs, prev, call, inputs>>

\* The open of the save_state after the loop.
SaveOpen(p) ==
    /\ pc[p] = "save"
    /\ IF CanOpenForWrite(file)
       THEN /\ file' = Truncate(file)
            /\ pc' = [pc EXCEPT ![p] = "save_dump"]
       ELSE /\ pc' = [pc EXCEPT ![p] = "raised"]
            /\ UNCHANGED file
    /\ UNCHANGED <<forced_drawdown, force_confirm, state, index_price, vix_price,
                   data_map, idx, loaded, cleared, attempts, created, undelivered, sent,
                   rearmed, fired_before, runs, prev, call, inputs>>

\* json.dump(state, f, indent=2, sort_keys=True) and the close of the file,
\* on the document as the steps of the other runs left it since the open.
Dump(p) ==
    /\ pc[p] \in {"reset_dump", "save_dump"}
    /\ file' = Overwrite(file, JsonDump(state[p]))
    /\ pc' = [pc EXCEPT ![p] = IF pc[p] = "reset_dump" THEN "eval" ELSE "done"]
    /\ UNCHANGED <<forced_drawdown, force_confirm, state, index_price, vix_price,
                   data_map, idx, loaded, cleared, attempts, created, undelivered, sent,
                   rearmed, fired_before, runs, prev, call, inputs>>

(***************************************************************************)
(* The environment of the runs: parameters, provider responses, outcomes   *)
(* of the delivery.                                                        *)
(***************************************************************************)
Hist(closes) == [n \in 1..Len(closes) |-> Row(closes[n])]

\* Market histories: no data, a non-positive peak, a flat market, a fall
\* after the peak, a recovery, and a fall whose last rows are incomplete.
Hists ==
    {Hist(<< >>), Hist(<<0>>), Hist(<<80>>), Hist(<<100>>),
     Hist(<<100, 80>>), Hist(<<80, 100>>), Hist(<<100, 80, 80>>),
     <<Row(100), Row(80), NanRow(0)>>}

IndexResponses == {Failure, Response(<< >>), Response(<<Row(80)>>), Response(<<Row(98)>>)}

VixResponses == {Failure, Response(<<Row(15)>>), Response(<<Row(20)>>)}

Forced == {None, Some(-2), Some(-20)}

Delivery == {"ok", "error"}

\* The process of the scheduled, non-overlapping runs.
Scheduled == {1}

Next ==
    \E p \in Scheduled :
        \/ Load(p, Forced, BOOLEAN)
        \/ FetchPrices(p, IndexResponses, VixResponses)
        \/ FetchSeries(p, Hists)
        \/ FetchSeriesFails(p)
        \/ Reset(p)
        \/ EvalLevel(p, Delivery)
        \/ Save(p)

Spec == Init /\ [][Next]_vars

(***************************************************************************)
(* Two runs in succession with unchanged inputs: the run started by        *)
(* LoadAgain reads the responses and the history of the run before it.     *)
(***************************************************************************)
NextTwice ==
    \E p \in Scheduled :
        \/ Load(p, Forced, BOOLEAN)
        \/ LoadAgain(p)
        \/ FetchPrices(p, IF prev = None THEN IndexResponses ELSE {prev[1].index},
                          IF prev = None THEN VixResponses ELSE {prev[1].vix})
        \/ FetchSeries(p, IF prev = None THEN Hists ELSE {prev[1].hist})
        \/ Reset(p)
        \/ EvalLevel(p, Delivery)
        \/ Save(p)

SpecTwice == Init /\ [][NextTwice]_vars

(***************************************************************************)
(* Runs over a state document of any content, with the market data         *)
(* available.                                                              *)
(***************************************************************************)
JsonText(type, keys) ==
    JsonDump([kind |-> type, map |-> [k \in keys |-> << >>]])

Documents ==
    {MissingFile,
     Doc("missing", NoText, TRUE, FALSE),
     Doc("directory", NoText, FALSE, FALSE),
     Doc("undecodable", NoText, TRUE, TRUE),
     Doc("empty", NoText, TRUE, TRUE),
     Doc("garbage", NoText, TRUE, TRUE),
     Doc("json", JsonText("null", {}), TRUE, TRUE),
     Doc("json", JsonText("list", {}), TRUE, TRUE),
     Doc("json", JsonText("list", {"5"}), TRUE, TRUE),
     Doc("json", JsonText("dict", {}), TRUE, TRUE),
     Doc("json", JsonText("dict", {"5"}), TRUE, TRUE),
     Doc("json", JsonText("dict", {"5"}), TRUE, FALSE),
     Doc("json", JsonText("dict", {"5"}), FALSE, TRUE),
     Doc("json", JsonText("dict", {"5"}), FALSE, FALSE)}

InitCorrupt == (\E f \in Documents : Start(f)) /\ call = None

NextCorrupt ==
    \E p \in Scheduled :
        \/ Load(p, {None}, {FALSE})
        \/ FetchPrices(p, {Response(<<Row(80)>>), Response(<<Row(98)>>)},
                          {Response(<<Row(15)>>), Response(<<Row(20)>>)})
        \/ FetchSeries(p, {Hist(<<80>>), Hist(<<100>>), Hist(<<100, 80>>)})
        \/ Reset(p)
        \/ EvalLevel(p, Delivery)
        \/ Save(p)

SpecCorrupt == InitCorrupt /\ [][NextCorrupt]_vars

(***************************************************************************)
(* The persistence confirmation as a function: applied to a level, a       *)
(* series of closes and a peak.                                            *)
(***************************************************************************)
RECURSIVE SeqsUpTo(_, _)
SeqsUpTo(S, n) ==
    IF n = 0 THEN {<< >>}
    ELSE LET shorter == SeqsUpTo(S, n - 1)
         IN  shorter \cup {Append(c, x) : c \in shorter, x \in S}

PersistenceArgs ==
    [level : Levels, closes : SeqsUpTo({80, 85, 90}, MaxLen), peak : {90, 100},
     done : {FALSE}, result : {FALSE}]

InitPersistence == Start(MissingFile) /\ call \in {Some(a) : a \in PersistenceArgs}

ApplyPersistence ==
    /\ call # None
    /\ ~call[1].done
    /\ call' = Some([call[1] EXCEPT
                       !.done = TRUE,
                       !.result = PersistenceConfirmed(
                                      call[1].level, [Close |-> call[1].closes],
                                      Threshold(call[1].peak, call[1].level))])
    /\ UNCHANGED run_vars

SpecPersistence == InitPersistence /\ [][ApplyPersistence]_vars

(***************************************************************************)
(* Vocabulary of the properties, stated on the values a run read.          *)
(***************************************************************************)
\* The closes of the lookback window of level l in the run of p.
LevelCloses(p, l) == data_map[p][LEVELS(l)].Close

\* The level loop of the run of p has finished the iteration of level l.
Iterated(p, l) ==
    \/ pc[p] \in {"save", "done"}
    \/ pc[p] = "eval" /\ \E n \in 1..(idx[p] - 1) : LevelOrder[n] = l

\* The keys of the state with which the level loop of the run of p started.
KeysAtLoop(p) == IF cleared[p] THEN {} ELSE DOMAIN loaded[p].map

\* The keys of the document on disk: those json.load finds in it.
FileKeys ==
    IF file.kind = "json"
    THEN {file.text.members[n].key : n \in 1..Len(file.text.members)}
    ELSE {}

\* The drawdown used for level l is at most -l (at least l percent below the peak).
DeepEnough(p, l) ==
    LET peak == SeqMax(LevelCloses(p, l))
    IN  IF forced_drawdown[p] # None
        THEN forced_drawdown[p][1] <= -l
        ELSE (index_price[p] - peak) * 100 <= (-l) * peak

\* The N most recent closes of level l exist and are at or below the threshold price.
Persists(p, l) ==
    LET closes == LevelCloses(p, l)
        N == PERSISTENCE_DAYS(l)
    IN  \/ N = 0
        \/ /\ Len(closes) >= N
           /\ \A n \in (Len(closes) - N + 1)..Len(closes) :
                closes[n] * 100 <= SeqMax(closes) * (100 - l)

\* Level l has a series with a positive peak, is eligible and is confirmed.
Qualifies(p, l) ==
    /\ Len(LevelCloses(p, l)) > 0
    /\ SeqMax(LevelCloses(p, l)) > 0
    /\ DeepEnough(p, l)
    /\ Persists(p, l) \/ vix_price[p] >= 20 \/ force_confirm[p]

(***************************************************************************)
(* Properties.                                                             *)
(***************************************************************************)
\* C1: a level whose key is in the loaded state, in a run in which the Reset
\* Controller did not clear the state, is skipped: no notification is
\* attempted for it and no record is written for it; and between two
\* clearings of the state each level is notified at most once.
C1_FiredLevelIsSkipped ==
    /\ \A p \in Procs : \A l \in Levels :
         (LevelKey(l) \in DOMAIN loaded[p].map /\ ~cleared[p])
            => /\ attempts[p][l] = 0
               /\ l \notin created[p]
               /\ state[p].map[LevelKey(l)] = loaded[p].map[LevelKey(l)]
    /\ \A l \in Levels : sent[l] <= 1

\* A finished run skipped a level that qualified, because its key was loaded.
C1_Witness ==
    \E p \in Procs : \E l \in Levels :
        /\ pc[p] = "done"
        /\ ~cleared[p]
        /\ LevelKey(l) \in DOMAIN loaded[p].map
        /\ Qualifies(p, l)
        /\ attempts[p][l] = 0

\* C2: a level without a record whose drawdown is <= -L and which is confirmed
\* (persistence, or volatility >= 20, or force_confirm) gets exactly one
\* record and exactly one send_alert call in the run.
C2_QualifiedLevelFiresOnce ==
    \A p \in Procs : \A l \in Levels :
        /\ attempts[p][l] <= 1
        /\ (Iterated(p, l) /\ LevelKey(l) \notin KeysAtLoop(p) /\ Qualifies(p, l))
              => /\ attempts[p][l] = 1
                 /\ l \in created[p]
                 /\ LevelKey(l) \in DOMAIN state[p].map
                 /\ pc[p] = "done" => LevelKey(l) \in FileKeys

\* A finished run fired a level at the boundary drawdown = -L.
C2_Witness ==
    \E p \in Procs : \E l \in Levels :
        /\ pc[p] = "done"
        /\ forced_drawdown[p] = None
        /\ Qualifies(p, l)
        /\ (index_price[p] - SeqMax(LevelCloses(p, l))) * 100 = (-l) * SeqMax(LevelCloses(p, l))
        /\ attempts[p][l] = 1
        /\ l \in created[p]

\* The reset drawdown of the run of p is defined and strictly above -3.
Recovered(p) ==
    LET closes == data_map[p][reset_period].Close
    IN  /\ Len(closes) > 0
        /\ SeqMax(closes) > 0
        /\ IF forced_drawdown[p] # None
           THEN forced_drawdown[p][1] > -3
           ELSE (index_price[p] - SeqMax(closes)) * 100 > (-3) * SeqMax(closes)

\* C3: a run that starts with at least one record and whose reset drawdown is
\* strictly greater than -3 ends with an empty persisted state.
C3_ResetLeavesStateEmpty ==
    \A p \in Procs :
        (pc[p] = "done" /\ DOMAIN loaded[p].map # {} /\ Recovered(p))
            => file = save_state(EmptyState, file)

\* C5: after the state was cleared, a level whose drawdown is <= -L and whose
\* confirmation holds in a run fires in that run: no level stays disarmed.
C5_ClearedLevelFiresAgain ==
    \A p \in Procs : \A l \in Levels :
        (Iterated(p, l) /\ Qualifies(p, l)) => l \notin rearmed

\* A level that had fired before the clearing fired again in a later run.
C5_Witness ==
    \E p \in Procs : \E l \in Levels :
        /\ pc[p] = "done"
        /\ ~cleared[p]
        /\ l \in fired_before
        /\ l \in created[p]
        /\ attempts[p][l] = 1

\* The response r gives no latest close: the provider failed or sent no row.
NoLatestClose(r) == ~r.ok \/ \A n \in 1..Len(r.rows) : r.rows[n].nan

\* C6: when the fetch of the index price or of the volatility reading fails,
\* the run returns normally and is a no-op: the document is not written, the
\* Reset Controller does not run and no notification is attempted.
C6_PriceFailureIsNoOp ==
    \A p \in Procs :
        (pc[p] \notin {"idle", "fetch_prices"}
           /\ (NoLatestClose(inputs[p].index) \/ NoLatestClose(inputs[p].vix)))
            => /\ pc[p] = "returned"
               /\ file = inputs[p].file
               /\ ~cleared[p]
               /\ state[p] = loaded[p]
               /\ created[p] = {}
               /\ \A l \in Levels : attempts[p][l] = 0

\* A run returned early over a populated document.
C6_Witness ==
    \E p \in Procs :
        /\ pc[p] = "returned"
        /\ NoLatestClose(inputs[p].index)
        /\ DOMAIN loaded[p].map # {}

\* C7: a failed delivery neither aborts the run nor rolls the trigger back: the
\* record of the level is in the state, the loop goes on, the record is in the
\* document once the run is done, and the level is not notified again.
C7_FailedDeliveryIsRecorded ==
    /\ \A p \in Procs : \A l \in undelivered[p] :
         /\ pc[p] \in {"eval", "save", "done"}
         /\ attempts[p][l] = 1
         /\ l \in created[p]
         /\ LevelKey(l) \in DOMAIN state[p].map
         /\ pc[p] = "done" => LevelKey(l) \in FileKeys
    /\ \A l \in Levels :
         sent[l] >= 1 =>
            /\ sent[l] = 1
            /\ \/ LevelKey(l) \in FileKeys
               \/ \E p \in Procs : pc[p] \in {"eval", "save"} /\ l \in created[p]

\* A run whose first delivery failed went on to fire a later level and ended.
C7_Witness ==
    \E p \in Procs : \E l, m \in Levels :
        /\ pc[p] = "done"
        /\ l \in undelivered[p]
        /\ l < m
        /\ m \in created[p]
        /\ LevelKey(l) \in FileKeys

\* C10: a level gets no record and no notification unless its series is not
\* empty, its peak is > 0, its drawdown is <= -L and it is confirmed
\* (force_confirm, persistence or volatility >= 20); at the boundaries
\* drawdown = -L and volatility = 20 a level without a record does fire.
C10_NoSpuriousTrigger ==
    \A p \in Procs : \A l \in Levels :
        /\ (attempts[p][l] > 0 \/ l \in created[p]) => Qualifies(p, l)
        /\ (/\ Iterated(p, l)
            /\ LevelKey(l) \notin KeysAtLoop(p)
            /\ forced_drawdown[p] = None
            /\ Len(LevelCloses(p, l)) > 0
            /\ SeqMax(LevelCloses(p, l)) > 0
            /\ (index_price[p] - SeqMax(LevelCloses(p, l))) * 100
                   = (-l) * SeqMax(LevelCloses(p, l))
            /\ vix_price[p] = 20)
              => attempts[p][l] = 1 /\ l \in created[p]

\* A run fired a level that only the volatility reading of exactly 20 confirms
\* and a level whose drawdown is exactly -L, and left a level that is not
\* deep enough alone.
C10_Witness ==
    \E p \in Procs : \E l, m, k \in Levels :
        /\ pc[p] = "done"
        /\ forced_drawdown[p] = None
        /\ ~force_confirm[p]
        /\ vix_price[p] = 20
        /\ ~Persists(p, l)
        /\ l \in created[p]
        /\ m \in created[p]
        /\ Len(LevelCloses(p, m)) > 0
        /\ (index_price[p] - SeqMax(LevelCloses(p, m))) * 100 = (-m) * SeqMax(LevelCloses(p, m))
        /\ Len(LevelCloses(p, k)) > 0
        /\ SeqMax(LevelCloses(p, k)) > 0
        /\ ~DeepEnough(p, k)
        /\ attempts[p][k] = 0
        /\ LevelKey(k) \notin DOMAIN loaded[p].map

\* C4: a second run with the price, the volatility reading, the series and the
\* parameters of the first, over a populated state, creates no record, attempts
\* no notification and leaves the persisted state as the first run left it.
C4_SecondRunChangesNothing ==
    \A p \in Procs :
        (pc[p] = "done" /\ prev # None /\ DOMAIN loaded[p].map # {})
            => /\ created[p] = {}
               /\ \A l \in Levels : attempts[p][l] = 0
               /\ file = inputs[p].file

\* The document is a level -> record document.
ValidDocument(f) == f.kind = "json" /\ f.text.type = "dict"

\* The document is a level -> record document that the process can read.
LoadsAsDocument(f) == ValidDocument(f) /\ CanOpenForRead(f)

\* C8: whatever the state file holds, load_state yields the empty state
\* without raising and the run goes on to its end and writes the final state.
C8_AnyDocumentLoadsEmpty ==
    \A p \in Procs :
        (pc[p] # "idle" /\ ~LoadsAsDocument(inputs[p].file))
            => /\ loaded[p] = [kind |-> "dict", map |-> << >>]
               /\ pc[p] # "raised"
               /\ pc[p] = "done" => ValidDocument(file)

\* C9: persistence of a level with requirement N > 0 holds exactly when the
\* series has at least N closes and each of the N most recent closes is
\* <= peak * (1 - level/100); with requirement 0 it holds.
C9_PersistenceFailsClosed ==
    (call # None /\ call[1].done) =>
        LET a == call[1]
            N == PERSISTENCE_DAYS(a.level)
            len == Len(a.closes)
        IN  a.result <=>
               \/ N = 0
               \/ /\ len >= N
                  /\ \A n \in (len - N + 1)..len :
                       a.closes[n] * 100 <= a.peak * (100 - a.level)

\* Persistence was refused to a series shorter than the requirement although
\* every close it has is at or below the threshold price.
C9_Witness ==
    /\ call # None
    /\ call[1].done
    /\ ~call[1].result
    /\ Len(call[1].closes) > 0
    /\ Len(call[1].closes) < PERSISTENCE_DAYS(call[1].level)
    /\ \A n \in 1..Len(call[1].closes) :
         call[1].closes[n] * 100 <= call[1].peak * (100 - call[1].level)

\* C11: the label of every record created by a run names exactly the rules
\* that were satisfied for its level: "PERSISTENCE" iff persistence held and
\* the volatility was below 20, "HIGH VIX" iff the volatility was >= 20 and
\* persistence did not hold, "PERSISTENCE + HIGH VIX" iff both held; also in
\* runs with force_confirm.
C11_LabelNamesSatisfiedRules ==
    \A p \in Procs : \A l \in created[p] :
        LET label == state[p].map[LevelKey(l)].confirmed_by
            persistence == Persists(p, l)
            volatility == vix_price[p] >= 20
        IN  /\ label = "PERSISTENCE" <=> (persistence /\ ~volatility)
            /\ label = "HIGH VIX" <=> (volatility /\ ~persistence)
            /\ label = "PERSISTENCE + HIGH VIX" <=> (persistence /\ volatility)

(***************************************************************************)
(* Runs with the override of the drawdown: forced values on both sides of  *)
(* the reset threshold and below every level, index prices at, above and   *)
(* below the reset threshold for a peak of 100, and histories without      *)
(* data, with a non-positive peak in the reference window or in every      *)
(* window, flat, and fallen.                                               *)
(***************************************************************************)
ForcedOverride == {None, Some(-3), Some(-2), Some(-20)}

IndexOverride ==
    {Failure, Response(<<Row(80)>>), Response(<<Row(97)>>), Response(<<Row(98)>>)}

HistsOverride ==
    {Hist(<< >>), Hist(<<0>>), Hist(<<100>>), Hist(<<100, 0>>), Hist(<<100, 80>>)}

NextOverride ==
    \E p \in Scheduled :
        \/ Load(p, ForcedOverride, BOOLEAN)
        \/ FetchPrices(p, IndexOverride, {Response(<<Row(15)>>)})
        \/ FetchSeries(p, HistsOverride)
        \/ Reset(p)
        \/ EvalLevel(p, {"ok"})
        \/ Save(p)

SpecOverride == Init /\ [][NextOverride]_vars

\* Every level has a series with a positive peak in the run of p.
HasPeaks(p) ==
    \A l \in Levels : Len(LevelCloses(p, l)) > 0 /\ SeqMax(LevelCloses(p, l)) > 0

\* The run of p has forced_drawdown = -20 and force_confirm, loaded the empty
\* state and ran to its end.
ScenarioC(p) ==
    /\ pc[p] = "done"
    /\ forced_drawdown[p] = Some(-20)
    /\ force_confirm[p]
    /\ DOMAIN loaded[p].map = {}

\* The run of p fired the four levels: four records, four send_alert calls,
\* and the document holds exactly the four levels.
FiredAllFour(p) ==
    /\ created[p] = Levels
    /\ \A l \in Levels : attempts[p][l] = 1
    /\ FileKeys = {LevelKey(l) : l \in Levels}
    /\ file = save_state(state[p], file)

\* C12 as stated: a run with forced_drawdown = -20 and force_confirm from the
\* empty state fires the four levels 5, 10, 15, 20.
C12_ScenarioC_AnySeries ==
    \A p \in Procs : ScenarioC(p) => FiredAllFour(p)

\* C12: a run with forced_drawdown = -20 and force_confirm from the empty
\* state, in which the series of every level is non-empty with a peak > 0,
\* fires the four levels 5, 10, 15, 20 in that run: four records, four
\* notifications attempted, and the persisted state holds exactly the four.
C12_ScenarioC ==
    \A p \in Procs : (ScenarioC(p) /\ HasPeaks(p)) => FiredAllFour(p)

\* Scenario C ran over a market that had not fallen at all.
C12_Witness ==
    \E p \in Procs :
        /\ ScenarioC(p)
        /\ HasPeaks(p)
        /\ index_price[p] = 98
        /\ created[p] = Levels
        /\ FileKeys = {"5", "10", "15", "20"}

(***************************************************************************)
(* The test runner (src/test.py): runs with force_confirm on one state     *)
(* file that starts empty, each with a forced drawdown at or below the     *)
(* reset threshold, with the prices and the series available.              *)
(***************************************************************************)
TEST_DRAWDOWNS == <<-5, -10, -15, -20>>

TestForced ==
    {Some(RESET_THRESHOLD)} \cup {Some(TEST_DRAWDOWNS[n]) : n \in 1..Len(TEST_DRAWDOWNS)}

\* run_alerts(test_mode=True, forced_drawdown=dd, force_confirm=True, state_file=...)
LoadTest(p) ==
    /\ \E forced \in TestForced : EnterWithin(p, forced, TRUE, MaxTestRuns)
    /\ prev' = None

NextTest ==
    \E p \in Scheduled :
        \/ LoadTest(p)
        \/ FetchPrices(p, {Response(<<Row(80)>>), Response(<<Row(98)>>)},
                          {Response(<<Row(15)>>)})
        \/ FetchSeries(p, {Hist(<<100>>)})
        \/ Reset(p)
        \/ EvalLevel(p, {"ok"})
        \/ Save(p)

SpecTest == Init /\ [][NextTest]_vars

\* The state the test runner leaves after its first n runs: the record of
\* the j-th level was written by the run with the j-th forced drawdown.
AfterTestRuns(st, n) ==
    /\ DOMAIN st.map = {LevelKey(LevelOrder[j]) : j \in 1..n}
    /\ \A j \in 1..n :
         st.map[LevelKey(LevelOrder[j])].drawdown = 100 * TEST_DRAWDOWNS[j]

\* C13: over runs with force_confirm and forced drawdowns <= -3 on a state
\* file that starts empty, with the data available, no run clears the state;
\* each level is notified at most once over the whole sequence; a run fires
\* level L exactly when its forced drawdown is <= -L and L has no record yet,
\* so a level without a record after a run has met no forced drawdown <= -L;
\* in the test runner's sequence -5, -10, -15, -20 run k fires only the k-th
\* level and the state after the fourth run holds the four levels.
C13_ForcedSequenceFiresEachLevelOnce ==
    \A p \in Procs :
        /\ ~cleared[p]
        /\ \A l \in Levels : sent[l] <= 1
        /\ pc[p] = "done" =>
             /\ \A l \in Levels :
                  /\ l \in created[p] <=>
                       (forced_drawdown[p][1] <= -l
                          /\ LevelKey(l) \notin DOMAIN loaded[p].map)
                  /\ LevelKey(l) \in DOMAIN loaded[p].map => LevelKey(l) \in FileKeys
                  /\ LevelKey(l) \in FileKeys =>
                       JsonLoad(file.text).map[LevelKey(l)].drawdown <= 100 * (-l)
                  /\ LevelKey(l) \notin FileKeys => forced_drawdown[p][1] > -l
             /\ \A k \in 1..Len(TEST_DRAWDOWNS) :
                  (/\ runs = k
                   /\ forced_drawdown[p] = Some(TEST_DRAWDOWNS[k])
                   /\ AfterTestRuns(loaded[p], k - 1))
                     => /\ created[p] = {LevelOrder[k]}
                        /\ AfterTestRuns(JsonLoad(file.text), k)

\* The test runner finished its four runs: the fourth fired level 20 only
\* and the document holds the four levels.
C13_Witness ==
    \E p \in Procs :
        /\ pc[p] = "done"
        /\ runs = 4
        /\ forced_drawdown[p] = Some(-20)
        /\ AfterTestRuns(loaded[p], 3)
        /\ created[p] = {20}
        /\ FileKeys = {"5", "10", "15", "20"}

(***************************************************************************)
(* Scenarios A and B of the confirmation: unforced runs at the price 95    *)
(* over 6mo windows [105, 95], [110, 95] and [120, 95], with the           *)
(* volatility below and above the confirmation threshold.                  *)
(***************************************************************************)
NextScenario ==
    \E p \in Scheduled :
        \/ Load(p, {None}, {FALSE})
        \/ FetchPrices(p, {Response(<<Row(95)>>)},
                          {Response(<<Row(15)>>), Response(<<Row(25)>>)})
        \/ FetchSeries(p, {Hist(<<105, 95>>), Hist(<<110, 95>>), Hist(<<120, 95>>)})
        \/ Reset(p)
        \/ EvalLevel(p, {"ok"})
        \/ Save(p)

SpecScenario == Init /\ [][NextScenario]_vars

\* The run of p is an unforced run from the empty state at the price 95 and
\* the volatility 15 that ran to its end with the given 6mo closes.
ScenarioA(p, closes) ==
    /\ pc[p] = "done"
    /\ forced_drawdown[p] = None
    /\ ~force_confirm[p]
    /\ DOMAIN loaded[p].map = {}
    /\ index_price[p] = 95
    /\ vix_price[p] = 15
    /\ LEVELS(10) = "6mo"
    /\ PERSISTENCE_DAYS(10) = 1
    /\ LevelCloses(p, 10) = closes

\* The run of p fired level 10 at the threshold price 108 by persistence.
FiredTenByPersistence(p) ==
    /\ 10 \in created[p]
    /\ attempts[p][10] = 1
    /\ "10" \in FileKeys
    /\ state[p].map["10"].threshold_price = 10800
    /\ state[p].map["10"].confirmed_by = "PERSISTENCE"

\* C14 as stated: with the 6mo closes [105, 95], the price 95 and the
\* volatility 15 a run from the empty state fires level 10 at the threshold
\* price 108 with the persistence label.
C14_ScenarioA_Closes105 ==
    \A p \in Procs : ScenarioA(p, <<105, 95>>) => FiredTenByPersistence(p)

\* C14: with the 6mo closes [120, 95] (peak 120), the price 95 and the
\* volatility 15 a run from the empty state fires level 10 at the threshold
\* price 108 with the persistence label.
C14_ScenarioA ==
    \A p \in Procs :
        ScenarioA(p, <<120, 95>>)
            => /\ FiredTenByPersistence(p)
               /\ state[p].map["10"].reference_peak = 12000

\* Scenario A ran over the 6mo closes [120, 95] and level 10 has its record.
C14_Witness ==
    \E p \in Procs :
        /\ ScenarioA(p, <<120, 95>>)
        /\ 10 \in created[p]
        /\ state[p].map["10"].confirmed_by = "PERSISTENCE"

\* The run of p is past the Reset Controller.
PastReset(p) == pc[p] \in {"eval", "save", "done"}

\* The confirmation of level l holds in the run of p.
ConfirmationHolds(p, l) == force_confirm[p] \/ Persists(p, l) \/ vix_price[p] >= 20

\* C15 as stated: with a forced drawdown the reset decision and the firing
\* of a confirmed level without a record follow from the forced value alone
\* (forced > -3 with a non-empty state resets, forced <= -L makes L
\* eligible), whatever the price and the series, an empty series and a
\* series with a non-positive peak included.
C15_ForcedAloneDecides ==
    \A p \in Procs :
        forced_drawdown[p] # None =>
            /\ PastReset(p) =>
                 (cleared[p] <=>
                     (forced_drawdown[p][1] > -3 /\ DOMAIN loaded[p].map # {}))
            /\ \A l \in Levels :
                 (Iterated(p, l) /\ LevelKey(l) \notin KeysAtLoop(p)
                    /\ ConfirmationHolds(p, l))
                    => (l \in created[p] <=> forced_drawdown[p][1] <= -l)

\* C15: with a forced drawdown, where the series is non-empty with a peak > 0
\* the reset decision and the firing of a confirmed level without a record
\* follow from the forced value alone (forced > -3 with a non-empty state
\* resets, forced <= -L makes L eligible), whatever the price and the closes;
\* with an empty reference series or a non-positive reference peak the state
\* is not cleared, and a level whose series is empty or has a non-positive
\* peak does not fire.
C15_ForcedDecidesWherePeakIsPositive ==
    \A p \in Procs :
        forced_drawdown[p] # None =>
            /\ PastReset(p) =>
                 (cleared[p] <=>
                     /\ Len(LevelCloses(p, reset_level)) > 0
                     /\ SeqMax(LevelCloses(p, reset_level)) > 0
                     /\ forced_drawdown[p][1] > -3
                     /\ DOMAIN loaded[p].map # {})
            /\ \A l \in Levels :
                 (Iterated(p, l) /\ LevelKey(l) \notin KeysAtLoop(p)
                    /\ ConfirmationHolds(p, l))
                    => (l \in created[p] <=>
                          /\ Len(LevelCloses(p, l)) > 0
                          /\ SeqMax(LevelCloses(p, l)) > 0
                          /\ forced_drawdown[p][1] <= -l)

\* A run with the forced drawdown -2 cleared a non-empty state and fired
\* nothing although the price 80 is 20 percent below the peak 100 of every
\* window.
C15_Witness ==
    \E p \in Procs :
        /\ pc[p] = "done"
        /\ forced_drawdown[p] = Some(-2)
        /\ index_price[p] = 80
        /\ HasPeaks(p)
        /\ \A l \in Levels : SeqMax(LevelCloses(p, l)) = 100
        /\ DOMAIN loaded[p].map # {}
        /\ cleared[p]
        /\ created[p] = {}
        /\ FileKeys = {}

\* The run of p fetched the price and the volatility and ended before it had
\* a series: a download of the data_map comprehension failed.
SeriesFetchFailed(p) ==
    /\ pc[p] \in {"returned", "raised"}
    /\ ~NoLatestClose(inputs[p].index)
    /\ ~NoLatestClose(inputs[p].vix)
    /\ data_map[p] = NoFrames
    /\ \A l \in Levels : ~Iterated(p, l)

\* C16: a run in which fetch_data raises for a lookback window, after the
\* prices were fetched, returns normally without raising, leaves the document
\* as it found it and attempts no notification.
C16_SeriesFailureIsRecovered ==
    \A p \in Procs :
        SeriesFetchFailed(p)
            => /\ pc[p] = "returned"
               /\ file = inputs[p].file
               /\ \A l \in Levels : attempts[p][l] = 0

(***************************************************************************)
(* Overlapping runs: two processes execute run_alerts on the same state    *)
(* file, their steps interleaved in any order.  load_state and save_state  *)
(* take no lock (src/state.py), so every step of a run is enabled whatever *)
(* the position of the other run, between the open and the dump of a       *)
(* save_state included.                                                    *)
(***************************************************************************)
NextOverlap ==
    \E p \in Procs :
        \/ Load(p, {None}, {FALSE})
        \/ FetchPrices(p, {Response(<<Row(80)>>), Response(<<Row(98)>>)},
                          {Response(<<Row(15)>>)})
        \/ FetchSeries(p, {Hist(<<100>>)})
        \/ ResetOpen(p)
        \/ EvalLevel(p, {"ok"})
        \/ SaveOpen(p)
        \/ Dump(p)

SpecOverlap == Init /\ [][NextOverlap]_vars

\* Every run has ended and every level notified since the state was last
\* cleared has its record in the document.
NoRecordLost ==
    (\A p \in Procs : pc[p] \in Ended)
        => \A l \in Levels : sent[l] >= 1 => LevelKey(l) \in FileKeys

\* C17: when runs overlap on one state file, no level is notified twice
\* within one episode, and no record is lost through the final write of the
\* other run: once the runs have ended, every level notified since the state
\* was last cleared has its record in the document.
C17_OverlapNeitherDuplicatesNorLoses ==
    /\ \A l \in Levels : sent[l] <= 1
    /\ NoRecordLost

(***************************************************************************)
(* Interrupted runs.  save_state is open(file, "w"), which truncates the   *)
(* document (ResetOpen, SaveOpen), followed by json.dump and the close of  *)
(* the file, which write the text (Dump); the process can be killed or     *)
(* interrupted at any position of a run, between the two included.         *)
(***************************************************************************)
\* The process of the run is killed (SIGKILL, SIGTERM): what json.dump wrote
\* is in the buffer of the file object and is lost.
Crash(p) ==
    /\ pc[p] \notin Ended
    /\ pc' = [pc EXCEPT ![p] = "crashed"]
    /\ UNCHANGED <<file, forced_drawdown, force_confirm, state, index_price, vix_price,
                   data_map, idx, loaded, cleared, attempts, created, undelivered, sent,
                   rearmed, fired_before, runs, prev, call, inputs>>

\* The run is interrupted by SIGINT: KeyboardInterrupt is raised in the
\* running statement, which no handler of the run catches (logic.py 96
\* catches Exception).  Inside json.dump the with block of save_state closes
\* the file, which flushes the chunks written so far.
Interrupt(p) ==
    /\ pc[p] \notin Ended
    /\ IF pc[p] \in {"reset_dump", "save_dump"}
       THEN \E n \in 0..Len(ChunkLens(JsonDump(state[p]))) :
                file' = Overwrite(file, Prefix(JsonDump(state[p]), n))
       ELSE UNCHANGED file
    /\ pc' = [pc EXCEPT ![p] = "interrupted"]
    /\ UNCHANGED <<forced_drawdown, force_confirm, state, index_price, vix_price,
                   data_map, idx, loaded, cleared, attempts, created, undelivered, sent,
                   rearmed, fired_before, runs, prev, call, inputs>>

NextCrash ==
    \E p \in Scheduled :
        \/ Load(p, {None}, {FALSE})
        \/ FetchPrices(p, {Response(<<Row(80)>>), Response(<<Row(98)>>)},
                          {Response(<<Row(15)>>)})
        \/ FetchSeries(p, {Hist(<<100>>)})
        \/ ResetOpen(p)
        \/ EvalLevel(p, {"ok"})
        \/ SaveOpen(p)
        \/ Dump(p)
        \/ Crash(p)
        \/ Interrupt(p)

SpecCrash == Init /\ [][NextCrash]_vars

\* C18: the state is written once, after the loop, and atomically: while a run
\* that has not cleared the state is before its final write the document is
\* the one it loaded, and a run interrupted at any point leaves the document
\* it loaded, or the empty state written by the reset, or the complete state
\* of the end of the run, never a partial or unparseable document.
C18_InterruptedRunLeavesWholeDocument ==
    \A p \in Procs :
        /\ (pc[p] \in {"fetch_prices", "fetch_series", "reset", "eval", "save"}
              /\ ~cleared[p])
              => file = inputs[p].file
        /\ pc[p] \in {"crashed", "interrupted"} =>
              /\ \/ file = inputs[p].file
                 \/ cleared[p] /\ file = save_state(EmptyState, file)
                 \/ idx[p] = Len(LevelOrder) /\ file = save_state(state[p], file)
              /\ file.kind \in {"missing", "json"}

\* The reference window of the run of p has a series with a positive peak.
HasReference(p) ==
    /\ Len(LevelCloses(p, reset_level)) > 0
    /\ SeqMax(LevelCloses(p, reset_level)) > 0

\* Every record the run of p loaded is in its state, unchanged.
KeepsLoaded(p) ==
    \A k \in DOMAIN loaded[p].map :
        k \in DOMAIN state[p].map /\ state[p].map[k] = loaded[p].map[k]

\* C19: the Reset Controller clears the state in a run exactly when the
\* series of the reference window (the window of the smallest level) is
\* non-empty, its peak is > 0, the reset drawdown is strictly greater than -3
\* and the loaded state is non-empty; right after a clearing the state and
\* the document are empty and no level has been evaluated or notified, and
\* the records that were loaded do not come back; with an empty reference
\* series or a non-positive reference peak the run removes no record.
C19_ResetIffRecovered ==
    \A p \in Procs :
        /\ PastReset(p) =>
             (cleared[p] <=> (Recovered(p) /\ DOMAIN loaded[p].map # {}))
        /\ (cleared[p] /\ pc[p] = "eval" /\ idx[p] = 1 /\ ~Iterated(p, LevelOrder[1])) =>
             /\ DOMAIN state[p].map = {}
             /\ file = save_state(EmptyState, file)
             /\ created[p] = {}
             /\ \A l \in Levels : attempts[p][l] = 0 /\ sent[l] = 0
        /\ cleared[p] =>
             \A k \in DOMAIN state[p].map : \E l \in created[p] : k = LevelKey(l)
        /\ (PastReset(p) /\ ~HasReference(p)) =>
             /\ KeepsLoaded(p)
             /\ pc[p] = "done" => DOMAIN loaded[p].map \subseteq FileKeys

\* A run over a non-empty state met the reset drawdown of exactly -3 (price
\* 97 against the reference peak 100) and did not clear it.
C19_Witness ==
    \E p \in Procs :
        /\ pc[p] = "done"
        /\ forced_drawdown[p] = None
        /\ HasReference(p)
        /\ (index_price[p] - SeqMax(LevelCloses(p, reset_level))) * 100
              = RESET_THRESHOLD * SeqMax(LevelCloses(p, reset_level))
        /\ DOMAIN loaded[p].map # {}
        /\ ~cleared[p]
        /\ DOMAIN loaded[p].map \subseteq FileKeys

\* C20: the Evaluator never changes or removes a record it loaded: in a run
\* in which the Reset Controller does not clear the state every loaded record
\* stays in the state with the values it had, and is in the document with
\* those values when the run has saved, so the fired levels only grow; loaded
\* records disappear only all together, by a clearing, after which a loaded
\* level has a record only if the run created it anew.
C20_LoadedRecordsAreKept ==
    \A p \in Procs :
        /\ ~cleared[p] => KeepsLoaded(p)
        /\ (pc[p] = "done" /\ ~cleared[p]) =>
             /\ file = save_state(state[p], file)
             /\ \A k \in DOMAIN loaded[p].map :
                  /\ k \in FileKeys
                  /\ JsonLoad(file.text).map[k] = loaded[p].map[k]
             /\ FileKeys = DOMAIN loaded[p].map \cup {LevelKey(l) : l \in created[p]}
        /\ cleared[p] =>
             \A l \in Levels :
                 (LevelKey(l) \in DOMAIN loaded[p].map
                    /\ LevelKey(l) \in DOMAIN state[p].map) => l \in created[p]

\* A run that did not clear the state added a record to the records it had
\* loaded, at a price other than the one recorded in them.
C20_Witness ==
    \E p \in Procs : \E l \in Levels :
        /\ pc[p] = "done"
        /\ ~cleared[p]
        /\ LevelKey(l) \in DOMAIN loaded[p].map
        /\ loaded[p].map[LevelKey(l)].triggered_at_price # 100 * index_price[p]
        /\ created[p] # {}
        /\ JsonLoad(file.text).map[LevelKey(l)] = loaded[p].map[LevelKey(l)]

====
